---- MODULE Spec2Model ----
(***************************************************************************)
(* Event-sourced ledger of src/event-sourcing.py: an append-only event     *)
(* store with snapshots, a command model with one global version counter,  *)
(* a query model that replays events, an entity store (read cache) and a   *)
(* transfer saga with compensation.                                        *)
(*                                                                         *)
(* Python dicts are modelled as functions whose DOMAIN is the set of keys  *)
(* present.  A raised exception is modelled by the field exc of the result *)
(* of an operation ("none" when the call returns normally).                *)
(***************************************************************************)
EXTENDS Integers, Sequences, FiniteSets, TLC

\* ---- bounds of the model ------------------------------------------------
MaxVersion == 4      \* cap on version_counter (one event per increment)
MaxVersionUndo == 3  \* the same cap in the specifications with undo_command
MaxVersionRace == 3  \* the same cap with two threads in execute_command
MaxVersionThreads == 2  \* the same cap with two threads in either method
MaxAmount == 2       \* command amounts are drawn from 1..MaxAmount
NumAccounts == 2     \* hashable account ids are 1..NumAccounts

\* An account id that Python cannot hash (such as the list [2]): dict.get
\* and dict item assignment raise TypeError on it, list filtering by == works.
UnhashableId == 0

AccountIds == 1..NumAccounts
AllIds == AccountIds \cup {UnhashableId}
Amounts == 1..MaxAmount
Hashable(k) == k # UnhashableId

NoExc == "none"

\* ---- Python dict ----------------------------------------------------------
EmptyDict == [k \in {} |-> k]
DictSet(d, k, v) == [x \in (DOMAIN d) \cup {k} |-> IF x = k THEN v ELSE d[x]]

\* ---- Event, EventStore ----------------------------------------------------
Event(event_type, data, version) ==
  [event_type |-> event_type, data |-> data, version |-> version]

\* Variant of add_event: the event is inserted at the head of the log.
add_event_prepends(evs, event) == <<event>> \o evs

add_event(evs, event) == Append(evs, event)

\* Variant of get_events: the comparison admits the snapshot's own version.
get_events_from(evs, aggregate_id, after_version) ==
  SelectSeq(evs, LAMBDA event:
    event.data.id = aggregate_id /\ event.version >= after_version)

get_events(evs, aggregate_id, after_version) ==
  SelectSeq(evs, LAMBDA event:
    event.data.id = aggregate_id /\ event.version > after_version)

EventStore_save_snapshot(snaps, aggregate_id, snapshot) ==
  DictSet(snaps, aggregate_id, snapshot)

\* snapshots.get(aggregate_id, None): <<>> is None, <<s>> is the snapshot s.
get_snapshot(snaps, aggregate_id) ==
  IF aggregate_id \in DOMAIN snaps THEN <<snaps[aggregate_id]>> ELSE <<>>

\* ---- EntityStore ------------------------------------------------------------
AccountEntity(account_id, balance, version) ==
  [account_id |-> account_id, balance |-> balance, version |-> version]

update_entity(accts, account_id, balance, version) ==
  DictSet(accts, account_id, AccountEntity(account_id, balance, version))

query_entity(accts, account_id) ==
  IF account_id \in DOMAIN accts THEN <<accts[account_id]>> ELSE <<>>

\* ---- AccountAggregate -------------------------------------------------------
AccountAggregate(account_id) ==
  [account_id |-> account_id, balance |-> 0, version |-> 0]

\* Variant of apply_event: the aggregate's version is not advanced.
apply_event_keeps_version(acct, event) ==
  [acct EXCEPT
    !.balance = IF event.event_type = "Deposit" THEN @ + event.data.amount
                ELSE IF event.event_type = "Withdrawal" THEN @ - event.data.amount
                ELSE @]

apply_event(acct, event) ==
  [acct EXCEPT
    !.balance = IF event.event_type = "Deposit" THEN @ + event.data.amount
                ELSE IF event.event_type = "Withdrawal" THEN @ - event.data.amount
                ELSE @,
    !.version = event.version]

\* Variant of can_withdraw: the amount is not compared.
can_withdraw_any_amount(acct, amount) == acct.balance >= 0

can_withdraw(acct, amount) == acct.balance >= amount

\* ---- Commands ---------------------------------------------------------------
DepositCommand(account_id, amount) ==
  [kind |-> "DepositCommand", account_id |-> account_id, amount |-> amount]

WithdrawalCommand(account_id, amount) ==
  [kind |-> "WithdrawalCommand", account_id |-> account_id, amount |-> amount]

Commands ==
  {DepositCommand(i, n) : i \in AccountIds, n \in Amounts}
    \cup {WithdrawalCommand(i, n) : i \in AccountIds, n \in Amounts}

DepositCommand_execute(evs, c, version) ==
  add_event(evs, Event("Deposit", [id |-> c.account_id, amount |-> c.amount], version))

\* Variant of DepositCommand.undo: the event appended is not the inverse.
DepositCommand_undo_as_deposit(evs, c, version) ==
  add_event(evs, Event("Deposit", [id |-> c.account_id, amount |-> c.amount], version))

DepositCommand_undo(evs, c, version) ==
  add_event(evs, Event("Withdrawal", [id |-> c.account_id, amount |-> c.amount], version))

\* Variant of WithdrawalCommand.execute: the event appended is a Deposit.
WithdrawalCommand_execute_as_deposit(evs, command, version) ==
  add_event(evs, Event("Deposit",
                       [id |-> command.account_id, amount |-> command.amount],
                       version))

WithdrawalCommand_execute(evs, c, version) ==
  add_event(evs, Event("Withdrawal", [id |-> c.account_id, amount |-> c.amount], version))

\* Variant of WithdrawalCommand.undo: the event appended is not the inverse.
WithdrawalCommand_undo_as_withdrawal(evs, command, version) ==
  add_event(evs, Event("Withdrawal",
                       [id |-> command.account_id, amount |-> command.amount],
                       version))

WithdrawalCommand_undo(evs, c, version) ==
  add_event(evs, Event("Deposit", [id |-> c.account_id, amount |-> c.amount], version))

\* command.execute(version) / command.undo(version): dynamic dispatch
Command_execute(evs, c, version) ==
  IF c.kind = "DepositCommand" THEN DepositCommand_execute(evs, c, version)
  ELSE WithdrawalCommand_execute(evs, c, version)

Command_undo(evs, c, version) ==
  IF c.kind = "DepositCommand" THEN DepositCommand_undo(evs, c, version)
  ELSE WithdrawalCommand_undo(evs, c, version)

\* ---- QueryModel -------------------------------------------------------------
RECURSIVE FoldEvents(_, _)
FoldEvents(acct, evs) ==
  IF evs = <<>> THEN acct ELSE FoldEvents(apply_event(acct, Head(evs)), Tail(evs))

\* Variant of rebuild_aggregate: the snapshot's version is not copied to the
\* aggregate.
rebuild_aggregate_drops_snapshot_version(evs, snaps, account_id) ==
  IF ~Hashable(account_id)
  THEN [exc |-> "TypeError", value |-> AccountAggregate(account_id)]
  ELSE
    LET snapshot == get_snapshot(snaps, account_id)
        version == IF snapshot # <<>> THEN snapshot[1].version ELSE 0
        fresh == AccountAggregate(account_id)
        start == IF snapshot # <<>>
                 THEN [fresh EXCEPT !.balance = snapshot[1].balance]
                 ELSE fresh
    IN [exc |-> NoExc,
        value |-> FoldEvents(start, get_events(evs, account_id, version))]

\* Result [exc, value]: value is the aggregate returned when exc = "none".
rebuild_aggregate(evs, snaps, account_id) ==
  IF ~Hashable(account_id)
  THEN [exc |-> "TypeError", value |-> AccountAggregate(account_id)]
  ELSE
    LET snapshot == get_snapshot(snaps, account_id)
        version == IF snapshot # <<>> THEN snapshot[1].version ELSE 0
        fresh == AccountAggregate(account_id)
        start == IF snapshot # <<>>
                 THEN [fresh EXCEPT !.balance = snapshot[1].balance,
                                    !.version = snapshot[1].version]
                 ELSE fresh
    IN [exc |-> NoExc,
        value |-> FoldEvents(start, get_events(evs, account_id, version))]

save_snapshot(snaps, acct) ==
  EventStore_save_snapshot(snaps, acct.account_id,
                           [balance |-> acct.balance, version |-> acct.version])

\* ---- CommandModel ------------------------------------------------------------
\* st is the state owned by the stores and the command model:
\* [events, snapshots, accounts, version_counter].  Result [st, exc].
\* Variant of execute_command: the counter is incremented before the check.
execute_command_counts_first(st, command) ==
  LET vc == st.version_counter + 1
      check == rebuild_aggregate(st.events, st.snapshots, command.account_id)
  IN
  IF command.kind = "WithdrawalCommand" /\ check.exc # NoExc
  THEN [st |-> [st EXCEPT !.version_counter = vc], exc |-> check.exc]
  ELSE IF command.kind = "WithdrawalCommand"
          /\ ~can_withdraw(check.value, command.amount)
  THEN [st |-> [st EXCEPT !.version_counter = vc],
        exc |-> "InsufficientBalanceError"]
  ELSE
    LET evs == Command_execute(st.events, command, vc)
        st1 == [st EXCEPT !.version_counter = vc, !.events = evs]
        acct == rebuild_aggregate(evs, st.snapshots, command.account_id)
    IN IF acct.exc # NoExc
       THEN [st |-> st1, exc |-> acct.exc]
       ELSE [st |-> [st1 EXCEPT !.accounts =
                       update_entity(@, command.account_id, acct.value.balance, vc)],
             exc |-> NoExc]

execute_command(st, command) ==
  LET check == rebuild_aggregate(st.events, st.snapshots, command.account_id)
  IN
  IF command.kind = "WithdrawalCommand" /\ check.exc # NoExc
  THEN [st |-> st, exc |-> check.exc]
  ELSE IF command.kind = "WithdrawalCommand"
          /\ ~can_withdraw(check.value, command.amount)
  THEN [st |-> st, exc |-> "InsufficientBalanceError"]
  ELSE
    LET vc == st.version_counter + 1
        evs == Command_execute(st.events, command, vc)
        st1 == [st EXCEPT !.version_counter = vc, !.events = evs]
        acct == rebuild_aggregate(evs, st.snapshots, command.account_id)
    IN IF acct.exc # NoExc
       THEN [st |-> st1, exc |-> acct.exc]
       ELSE [st |-> [st1 EXCEPT !.accounts =
                       update_entity(@, command.account_id, acct.value.balance, vc)],
             exc |-> NoExc]

\* undo_command reads the name `account`, which the method never binds: Python
\* resolves it to the module-level name.  g is that binding: <<>> when the
\* name is unbound (NameError), <<a>> when module-level code has bound it
\* (lines 199, 206, ...) to the aggregate a, whose balance is then written.
\* Variant of undo_command: the counter is not incremented before the append.
undo_command_reuses_version(st, g, command) ==
  LET vc == st.version_counter
      evs == Command_undo(st.events, command, vc)
      st1 == [st EXCEPT !.events = evs]
  IN IF g = <<>>
     THEN [st |-> st1, exc |-> "NameError"]
     ELSE IF ~Hashable(command.account_id)
     THEN [st |-> st1, exc |-> "TypeError"]
     ELSE [st |-> [st1 EXCEPT !.accounts =
                     update_entity(@, command.account_id, g[1].balance, vc)],
           exc |-> NoExc]

undo_command(st, g, command) ==
  LET vc == st.version_counter + 1
      evs == Command_undo(st.events, command, vc)
      st1 == [st EXCEPT !.version_counter = vc, !.events = evs]
  IN IF g = <<>>
     THEN [st |-> st1, exc |-> "NameError"]
     ELSE IF ~Hashable(command.account_id)
     THEN [st |-> st1, exc |-> "TypeError"]
     ELSE [st |-> [st1 EXCEPT !.accounts =
                     update_entity(@, command.account_id, g[1].balance, vc)],
           exc |-> NoExc]

\* ---- CommandModel, statement by statement -----------------------------------
\* The statements of execute_command and undo_command as the steps a second
\* caller can interleave with: balance check (lines 87-90), counter increment
\* (91, 97), append (92, 98), entity refresh (93-94, 99).

\* Lines 87-90: the exception the check raises, "none" when the call goes on.
check_balance(st, command) ==
  IF command.kind # "WithdrawalCommand" THEN NoExc
  ELSE LET r == rebuild_aggregate(st.events, st.snapshots, command.account_id)
       IN IF r.exc # NoExc THEN r.exc
          ELSE IF can_withdraw(r.value, command.amount) THEN NoExc
          ELSE "InsufficientBalanceError"

\* Lines 91 and 97: self.version_counter += 1
increment_version_counter(st) == [st EXCEPT !.version_counter = @ + 1]

\* Variant of the append: the version passed is one past the counter.
append_event_next_version(st, op, command) ==
  [st EXCEPT !.events =
     IF op = "execute" THEN Command_execute(@, command, st.version_counter + 1)
     ELSE Command_undo(@, command, st.version_counter + 1)]

\* Variant of the append: a withdrawal is appended only while the balance
\* still covers it.
append_event_checked(st, op, command) ==
  IF op = "execute" /\ check_balance(st, command) # NoExc THEN st
  ELSE [st EXCEPT !.events =
          IF op = "execute" THEN Command_execute(@, command, st.version_counter)
          ELSE Command_undo(@, command, st.version_counter)]

\* Lines 92 and 98: command.execute(self.version_counter) or
\* command.undo(self.version_counter); the counter is read at this moment.
append_event(st, op, command) ==
  [st EXCEPT !.events =
     IF op = "execute" THEN Command_execute(@, command, st.version_counter)
     ELSE Command_undo(@, command, st.version_counter)]

\* Lines 93-94 and 99: the entity is rewritten with the counter as it is now;
\* execute_command rebuilds the aggregate, undo_command reads the name g.
refresh_entity(st, g, op, command) ==
  LET acct == IF op = "execute"
              THEN rebuild_aggregate(st.events, st.snapshots, command.account_id)
              ELSE IF g = <<>> THEN [exc |-> "NameError", value |-> <<>>]
              ELSE IF ~Hashable(command.account_id)
              THEN [exc |-> "TypeError", value |-> <<>>]
              ELSE [exc |-> NoExc, value |-> g[1]]
  IN IF acct.exc # NoExc THEN [st |-> st, exc |-> acct.exc]
     ELSE [st |-> [st EXCEPT !.accounts =
                     update_entity(@, command.account_id, acct.value.balance,
                                   st.version_counter)],
           exc |-> NoExc]

\* ---- TransferSaga -----------------------------------------------------------
\* for command in reversed(cmds): undo_command(command); stops at the first
\* exception.
RECURSIVE UndoReversed(_, _, _)
UndoReversed(st, g, cmds) ==
  IF cmds = <<>> THEN [st |-> st, exc |-> NoExc]
  ELSE LET r == undo_command(st, g, cmds[Len(cmds)])
       IN IF r.exc # NoExc THEN r
          ELSE UndoReversed(r.st, g, SubSeq(cmds, 1, Len(cmds) - 1))

\* Result [st, exc, successful_commands]; the list is cleared only when the
\* loop completes.
compensate_transfer(st, g, cmds) ==
  LET r == UndoReversed(st, g, cmds)
  IN [st |-> r.st, exc |-> r.exc,
      successful_commands |-> IF r.exc = NoExc THEN <<>> ELSE cmds]

\* Result: st, successful_commands and exc after the call; step_exc is the
\* exception raised by a step ("none" if both succeeded), failed_step names the
\* step, at_failure holds the events and the list when the step raised.
\* Variant of start_transfer: the completed-steps list is cleared on commit.
start_transfer_clears_on_commit(st, g, cmds, from_account_id, to_account_id, amount) ==
  LET withdrawal_command == WithdrawalCommand(from_account_id, amount)
      deposit_command == DepositCommand(to_account_id, amount)
      r1 == execute_command(st, withdrawal_command)
      cmds1 == Append(cmds, withdrawal_command)
      r2 == execute_command(r1.st, deposit_command)
      Failed(step, r, list) ==
        LET c == compensate_transfer(r.st, g, list)
        IN [st |-> c.st,
            successful_commands |-> c.successful_commands,
            exc |-> IF c.exc # NoExc THEN c.exc ELSE r.exc,
            step_exc |-> r.exc, failed_step |-> step,
            at_failure |-> [events |-> r.st.events, successful_commands |-> list]]
  IN IF r1.exc # NoExc THEN Failed("withdrawal", r1, cmds)
     ELSE IF r2.exc # NoExc THEN Failed("deposit", r2, cmds1)
     ELSE [st |-> r2.st,
           successful_commands |-> <<>>,
           exc |-> NoExc, step_exc |-> NoExc, failed_step |-> "none",
           at_failure |-> [events |-> <<>>, successful_commands |-> <<>>]]

\* Variant of start_transfer: the withdrawal is recorded as completed before
\* it is executed.
start_transfer_records_first(st, g, cmds, from_account_id, to_account_id, amount) ==
  LET withdrawal_command == WithdrawalCommand(from_account_id, amount)
      deposit_command == DepositCommand(to_account_id, amount)
      r1 == execute_command(st, withdrawal_command)
      cmds1 == Append(cmds, withdrawal_command)
      r2 == execute_command(r1.st, deposit_command)
      Failed(step, r, list) ==
        LET c == compensate_transfer(r.st, g, list)
        IN [st |-> c.st,
            successful_commands |-> c.successful_commands,
            exc |-> IF c.exc # NoExc THEN c.exc ELSE r.exc,
            step_exc |-> r.exc, failed_step |-> step,
            at_failure |-> [events |-> r.st.events, successful_commands |-> list]]
  IN IF r1.exc # NoExc THEN Failed("withdrawal", r1, cmds1)
     ELSE IF r2.exc # NoExc THEN Failed("deposit", r2, cmds1)
     ELSE [st |-> r2.st,
           successful_commands |-> Append(cmds1, deposit_command),
           exc |-> NoExc, step_exc |-> NoExc, failed_step |-> "none",
           at_failure |-> [events |-> <<>>, successful_commands |-> <<>>]]

start_transfer(st, g, cmds, from_account_id, to_account_id, amount) ==
  LET withdrawal_command == WithdrawalCommand(from_account_id, amount)
      deposit_command == DepositCommand(to_account_id, amount)
      r1 == execute_command(st, withdrawal_command)
      cmds1 == Append(cmds, withdrawal_command)
      r2 == execute_command(r1.st, deposit_command)
      Failed(step, r, list) ==
        LET c == compensate_transfer(r.st, g, list)
        IN [st |-> c.st,
            successful_commands |-> c.successful_commands,
            exc |-> IF c.exc # NoExc THEN c.exc ELSE r.exc,
            step_exc |-> r.exc, failed_step |-> step,
            at_failure |-> [events |-> r.st.events, successful_commands |-> list]]
  IN IF r1.exc # NoExc THEN Failed("withdrawal", r1, cmds)
     ELSE IF r2.exc # NoExc THEN Failed("deposit", r2, cmds1)
     ELSE [st |-> r2.st,
           successful_commands |-> Append(cmds1, deposit_command),
           exc |-> NoExc, step_exc |-> NoExc, failed_step |-> "none",
           at_failure |-> [events |-> <<>>, successful_commands |-> <<>>]]

\* ---- state --------------------------------------------------------------------
\* Two callers of one CommandModel.
Threads == {1, 2}

\* A thread outside any call.
IdleThread == [pc |-> "idle", op |-> "none", command |-> <<>>]

VARIABLES
  events,               \* EventStore.events
  snapshots,            \* EventStore.snapshots
  accounts,             \* EntityStore.accounts
  version_counter,      \* CommandModel.version_counter
  successful_commands,  \* TransferSaga.successful_commands of the current saga
  account,              \* the module-level name `account`: <<>> while unbound
  accepted,             \* tally: per account, accepted deposits minus accepted withdrawals
  executed,             \* tally: the commands execute_command has accepted
  threads               \* per thread, the call it is in and its position in it

vars == <<events, snapshots, accounts, version_counter, successful_commands,
          account, accepted, executed, threads>>

State == [events |-> events, snapshots |-> snapshots, accounts |-> accounts,
          version_counter |-> version_counter]

Signed(command) ==
  IF command.kind = "DepositCommand" THEN command.amount ELSE 0 - command.amount

Accept(acc, command) ==
  IF command.account_id \in DOMAIN acc
  THEN [acc EXCEPT ![command.account_id] = @ + Signed(command)]
  ELSE acc

Init ==
  /\ events = <<>>
  /\ snapshots = EmptyDict
  /\ accounts = EmptyDict
  /\ version_counter = 0
  /\ successful_commands = <<>>
  /\ account = <<>>
  /\ accepted = [a \in AccountIds |-> 0]
  /\ executed = {}
  /\ threads = [t \in Threads |-> IdleThread]

Store(st) ==
  /\ events' = st.events
  /\ snapshots' = st.snapshots
  /\ accounts' = st.accounts
  /\ version_counter' = st.version_counter

\* command_model.execute_command(command)
ExecuteCommand(command) ==
  LET r == execute_command(State, command)
  IN /\ Store(r.st)
     /\ UNCHANGED <<successful_commands, account, accepted, executed, threads>>

\* The same call, with the accepted commands tallied per account.
TallyExecuteCommand(command) ==
  LET r == execute_command(State, command)
  IN /\ Store(r.st)
     /\ accepted' = IF r.exc = NoExc THEN Accept(accepted, command) ELSE accepted
     /\ UNCHANGED <<successful_commands, account, executed, threads>>

\* command_model.undo_command(command)
UndoCommand(command) ==
  LET r == undo_command(State, account, command)
  IN /\ Store(r.st)
     /\ UNCHANGED <<successful_commands, account, accepted, executed, threads>>

\* command_model.execute_command(command), the accepted commands recorded.
ExecuteAccepted(command) ==
  LET r == execute_command(State, command)
  IN /\ Store(r.st)
     /\ executed' = IF r.exc = NoExc THEN executed \cup {command} ELSE executed
     /\ UNCHANGED <<successful_commands, account, accepted, threads>>

\* command_model.undo_command(command) for a command execute_command accepted
\* and that has not been undone since.
UndoAccepted(command) ==
  LET r == undo_command(State, account, command)
  IN /\ command \in executed
     /\ Store(r.st)
     /\ executed' = executed \ {command}
     /\ UNCHANGED <<successful_commands, account, accepted, threads>>

\* account = query_model.rebuild_aggregate(account_id)   (module level)
RebuildAggregate(account_id) ==
  LET r == rebuild_aggregate(events, snapshots, account_id)
  IN /\ account' = IF r.exc = NoExc THEN <<r.value>> ELSE account
     /\ UNCHANGED <<events, snapshots, accounts, version_counter,
                    successful_commands, accepted, executed, threads>>

\* query_model.save_snapshot(account)   (module level)
SaveSnapshot ==
  /\ account # <<>>
  /\ snapshots' = save_snapshot(snapshots, account[1])
  /\ UNCHANGED <<events, accounts, version_counter, successful_commands,
                 account, accepted, executed, threads>>

\* transfer_saga = TransferSaga(command_model)
NewSaga ==
  /\ successful_commands' = <<>>
  /\ UNCHANGED <<events, snapshots, accounts, version_counter, account,
                 accepted, executed, threads>>

\* transfer_saga.start_transfer(from_account_id, to_account_id, amount)
StartTransfer(from_account_id, to_account_id, amount) ==
  LET r == start_transfer(State, account, successful_commands,
                          from_account_id, to_account_id, amount)
  IN /\ Store(r.st)
     /\ successful_commands' = r.successful_commands
     /\ UNCHANGED <<account, accepted, executed, threads>>

\* Thread t calls command_model.execute_command(command).
CallExecute(t, command) ==
  /\ threads[t].pc = "idle"
  /\ threads' = [threads EXCEPT ![t] =
                   [pc |-> "check", op |-> "execute", command |-> <<command>>]]
  /\ UNCHANGED <<events, snapshots, accounts, version_counter,
                 successful_commands, account, accepted, executed>>

\* Thread t calls command_model.undo_command(command).
CallUndo(t, command) ==
  /\ threads[t].pc = "idle"
  /\ threads' = [threads EXCEPT ![t] =
                   [pc |-> "increment", op |-> "undo", command |-> <<command>>]]
  /\ UNCHANGED <<events, snapshots, accounts, version_counter,
                 successful_commands, account, accepted, executed>>

\* Lines 87-90 in thread t: a rejected call ends here.
CheckBalance(t) ==
  /\ threads[t].pc = "check"
  /\ threads' = [threads EXCEPT ![t] =
                   IF check_balance(State, threads[t].command[1]) = NoExc
                   THEN [@ EXCEPT !.pc = "increment"]
                   ELSE IdleThread]
  /\ UNCHANGED <<events, snapshots, accounts, version_counter,
                 successful_commands, account, accepted, executed>>

\* Line 91 or 97 in thread t.
IncrementVersionCounter(t) ==
  /\ threads[t].pc = "increment"
  /\ Store(increment_version_counter(State))
  /\ threads' = [threads EXCEPT ![t].pc = "append"]
  /\ UNCHANGED <<successful_commands, account, accepted, executed>>

\* Line 92 or 98 in thread t.
AppendEvent(t) ==
  /\ threads[t].pc = "append"
  /\ Store(append_event(State, threads[t].op, threads[t].command[1]))
  /\ threads' = [threads EXCEPT ![t].pc = "refresh"]
  /\ UNCHANGED <<successful_commands, account, accepted, executed>>

\* Lines 93-94 or 99 in thread t; the call returns or raises.
RefreshEntity(t) ==
  /\ threads[t].pc = "refresh"
  /\ Store(refresh_entity(State, account, threads[t].op,
                          threads[t].command[1]).st)
  /\ threads' = [threads EXCEPT ![t] = IdleThread]
  /\ UNCHANGED <<successful_commands, account, accepted, executed>>

\* The bound of a specification: the call leaves version_counter within cap.
Within(cap) == version_counter' <= cap

\* Every operation, serially.
Next ==
  \/ \E command \in Commands :
       ExecuteCommand(command) /\ Within(MaxVersionUndo)
  \/ \E command \in Commands :
       UndoCommand(command) /\ Within(MaxVersionUndo)
  \/ \E account_id \in AllIds : RebuildAggregate(account_id)
  \/ SaveSnapshot
  \/ NewSaga
  \/ \E f \in AccountIds, t \in AllIds, n \in Amounts :
       StartTransfer(f, t, n) /\ Within(MaxVersionUndo)

Spec == Init /\ [][Next]_vars

\* Only execute_command calls (tallied), observed through rebuild_aggregate
\* and checkpointed by save_snapshot.
NextExecute ==
  \/ \E command \in Commands :
       TallyExecuteCommand(command) /\ Within(MaxVersion)
  \/ \E account_id \in AllIds : RebuildAggregate(account_id)
  \/ SaveSnapshot

SpecExecute == Init /\ [][NextExecute]_vars

\* execute_command and undo_command, with module-level rebuilds.
NextUndo ==
  \/ \E command \in Commands :
       ExecuteCommand(command) /\ Within(MaxVersionUndo)
  \/ \E command \in Commands :
       UndoCommand(command) /\ Within(MaxVersionUndo)
  \/ \E account_id \in AllIds : RebuildAggregate(account_id)

SpecUndo == Init /\ [][NextUndo]_vars

\* Transfers by sagas (new or reused), execute_command to fund the accounts.
NextSaga ==
  \/ \E command \in Commands :
       ExecuteCommand(command) /\ Within(MaxVersion)
  \/ \E account_id \in AllIds : RebuildAggregate(account_id)
  \/ NewSaga
  \/ \E f \in AccountIds, t \in AllIds, n \in Amounts :
       StartTransfer(f, t, n) /\ Within(MaxVersion)

SpecSaga == Init /\ [][NextSaga]_vars

\* Two threads calling execute_command of one CommandModel, interleaved
\* statement by statement.
NextRace ==
  \/ \E t \in Threads, command \in Commands : CallExecute(t, command)
  \/ \E t \in Threads : CheckBalance(t)
  \/ \E t \in Threads : IncrementVersionCounter(t) /\ Within(MaxVersionRace)
  \/ \E t \in Threads : AppendEvent(t)
  \/ \E t \in Threads : RefreshEntity(t)

SpecRace == Init /\ [][NextRace]_vars

\* Two threads calling execute_command and undo_command of one CommandModel,
\* interleaved statement by statement.
NextThreads ==
  \/ \E t \in Threads, command \in Commands : CallExecute(t, command)
  \/ \E t \in Threads, command \in Commands : CallUndo(t, command)
  \/ \E t \in Threads : CheckBalance(t)
  \/ \E t \in Threads : IncrementVersionCounter(t) /\ Within(MaxVersionThreads)
  \/ \E t \in Threads : AppendEvent(t)
  \/ \E t \in Threads : RefreshEntity(t)

SpecThreads == Init /\ [][NextThreads]_vars

\* Serial execute_command, undo_command of accepted commands only, and
\* start_transfer.
NextAccepted ==
  \/ \E command \in Commands :
       ExecuteAccepted(command) /\ Within(MaxVersion)
  \/ \E command \in Commands :
       UndoAccepted(command) /\ Within(MaxVersion)
  \/ \E account_id \in AccountIds : RebuildAggregate(account_id)
  \/ NewSaga
  \/ \E f \in AccountIds, t \in AllIds, n \in Amounts :
       StartTransfer(f, t, n) /\ Within(MaxVersion)

SpecAccepted == Init /\ [][NextAccepted]_vars

\* The amounts of the example run (lines 184, 188, 192, 231, 242).
ScenarioAmounts == {50, 100, 150}

ScenarioCommands ==
  [kind : {"DepositCommand", "WithdrawalCommand"},
   account_id : AccountIds, amount : ScenarioAmounts]

\* The calls of the example run, with its amounts, in any order.
NextScenario ==
  \/ \E command \in ScenarioCommands :
       ExecuteCommand(command) /\ Within(MaxVersion)
  \/ NewSaga
  \/ \E f \in AccountIds, t \in AccountIds, n \in ScenarioAmounts :
       StartTransfer(f, t, n) /\ Within(MaxVersion)

SpecScenario == Init /\ [][NextScenario]_vars

\* ---- properties --------------------------------------------------------------
\* The balance rebuild_aggregate returns for a hashable account id.
Balance(evs, snaps, id) == rebuild_aggregate(evs, snaps, id).value.balance

\* The aggregate obtained by folding every event of id from balance 0, version 0.
FoldAll(evs, id) == FoldEvents(AccountAggregate(id), get_events(evs, id, 0))

\* C1: after any sequence of execute_command calls with deposits and
\* withdrawals of positive amounts, the balance rebuild_aggregate returns for
\* every account equals the accepted deposits minus the accepted withdrawals
\* of that account, and it is never negative.
C1_BalanceIsAcceptedNet ==
  \A a \in AccountIds :
    /\ rebuild_aggregate(events, snapshots, a).exc = NoExc
    /\ Balance(events, snapshots, a) = accepted[a]
    /\ Balance(events, snapshots, a) >= 0

\* A withdrawal was accepted on an account that keeps a positive balance and
\* has a snapshot.
C1_Witness ==
  \E a \in AccountIds :
    /\ a \in DOMAIN snapshots
    /\ accepted[a] > 0
    /\ \E i \in 1..Len(events) :
         events[i].event_type = "Withdrawal" /\ events[i].data.id = a

\* C2: execute_command with a withdrawal whose amount exceeds the rebuilt
\* balance raises InsufficientBalanceError and leaves version_counter, the
\* event log, the snapshots and the entity store as they were.
C2_RejectedWithdrawalWritesNothing ==
  \A command \in Commands :
    (/\ command.kind = "WithdrawalCommand"
     /\ command.amount > Balance(events, snapshots, command.account_id))
    => LET r == execute_command(State, command)
       IN r.exc = "InsufficientBalanceError" /\ r.st = State

\* A funded account with an entity, on which a larger withdrawal is rejected.
C2_Witness ==
  \E command \in Commands :
    /\ command.kind = "WithdrawalCommand"
    /\ Balance(events, snapshots, command.account_id) > 0
    /\ command.amount > Balance(events, snapshots, command.account_id)
    /\ command.account_id \in DOMAIN accounts
    /\ execute_command(State, command).exc = "InsufficientBalanceError"

\* The inverse event type of a command: what its undo appends.
InverseType(command) ==
  IF command.kind = "DepositCommand" THEN "Withdrawal" ELSE "Deposit"

ForwardType(command) ==
  IF command.kind = "DepositCommand" THEN "Deposit" ELSE "Withdrawal"

\* C5: wherever execute_command(c) is accepted, execute_command(c) followed
\* at once by undo_command(c) leaves the rebuilt balance of c's account at its
\* value before the execute, and appends exactly two events, the forward
\* event and its inverse, with consecutive versions.
C5_UndoInverts ==
  \A command \in Commands :
    LET r1 == execute_command(State, command)
        r2 == undo_command(r1.st, account, command)
        n == Len(events)
        data == [id |-> command.account_id, amount |-> command.amount]
    IN r1.exc = NoExc =>
         /\ Balance(r2.st.events, r2.st.snapshots, command.account_id)
              = Balance(events, snapshots, command.account_id)
         /\ Len(r2.st.events) = n + 2
         /\ SubSeq(r2.st.events, 1, n) = events
         /\ r2.st.events[n + 1].event_type = ForwardType(command)
         /\ r2.st.events[n + 2].event_type = InverseType(command)
         /\ r2.st.events[n + 1].data = data
         /\ r2.st.events[n + 2].data = data
         /\ r2.st.events[n + 2].version = r2.st.events[n + 1].version + 1

\* The log ends with a deposit and the withdrawal that undoes it, on an
\* account that held a positive balance before, and version_counter has
\* counted both.
C5_Witness ==
  /\ Len(events) >= 3
  /\ LET n == Len(events)
     IN /\ events[n - 1].event_type = "Deposit"
        /\ events[n].event_type = "Withdrawal"
        /\ events[n].data = events[n - 1].data
        /\ events[n].version = events[n - 1].version + 1
        /\ version_counter = events[n].version
        /\ Balance(events, snapshots, events[n].data.id) > 0
        /\ \E command \in Commands :
             /\ command.account_id = events[n].data.id
             /\ execute_command(State, command).exc = NoExc

\* C6: after every undo_command(c) the entity of c's account has been
\* rewritten and equals the aggregate rebuilt from the log with the
\* compensating event: same balance, version equal to the new counter.
C6_UndoRefreshesEntity ==
  \A command \in Commands :
    LET r == undo_command(State, account, command)
        rebuilt == rebuild_aggregate(r.st.events, r.st.snapshots,
                                     command.account_id).value
    IN query_entity(r.st.accounts, command.account_id)
         = <<AccountEntity(command.account_id, rebuilt.balance,
                           r.st.version_counter)>>

\* C7: undo_command(c) completes normally for every command in every
\* reachable state.
C7_UndoNeverRaises ==
  \A command \in Commands :
    undo_command(State, account, command).exc = NoExc

\* C8: right after every successful execute_command(c), the entity of c's
\* account has the balance and the version of the rebuilt aggregate, and that
\* version is the version of the event just appended.
C8_EntityEqualsRebuild ==
  \A command \in Commands :
    LET r == execute_command(State, command)
        entity == query_entity(r.st.accounts, command.account_id)
        rebuilt == rebuild_aggregate(r.st.events, r.st.snapshots,
                                     command.account_id)
    IN r.exc = NoExc =>
         /\ rebuilt.exc = NoExc
         /\ entity # <<>>
         /\ entity[1].balance = rebuilt.value.balance
         /\ entity[1].version = rebuilt.value.version
         /\ entity[1].version = r.st.events[Len(r.st.events)].version

\* A state right after an accepted command on an account whose snapshot was
\* saved earlier and is older than the log: the entity carries the version of
\* the last event.
C8_Witness ==
  /\ events # <<>>
  /\ LET e == events[Len(events)]
     IN /\ e.data.id \in DOMAIN snapshots
        /\ snapshots[e.data.id].version > 0
        /\ snapshots[e.data.id].version < e.version
        /\ e.data.id \in DOMAIN accounts
        /\ accounts[e.data.id].version = e.version
        /\ accounts[e.data.id].balance = Balance(events, snapshots, e.data.id)
        /\ \E command \in Commands :
             /\ command.account_id = e.data.id
             /\ execute_command(State, command).exc = NoExc

\* C9: in every state reachable by execute_command, undo_command,
\* start_transfer and save_snapshot of a (possibly stale) rebuilt aggregate,
\* rebuild_aggregate, which starts from the snapshot and folds the events
\* after it, returns the balance and version of the fold of every event of the
\* account from balance 0, version 0.
C9_SnapshotEquivalence ==
  \A a \in AccountIds :
    LET r == rebuild_aggregate(events, snapshots, a)
    IN r.exc = NoExc /\ r.value = FoldAll(events, a)

\* An account with a snapshot of a positive balance, older events, and
\* events after the snapshot that undo_command appended (only a compensating
\* withdrawal takes a balance below zero).
C9_Witness ==
  \E a \in DOMAIN snapshots :
    /\ snapshots[a].version > 0
    /\ snapshots[a].balance > 0
    /\ get_events(events, a, snapshots[a].version) # <<>>
    /\ Len(get_events(events, a, 0))
         > Len(get_events(events, a, snapshots[a].version))
    /\ Balance(events, snapshots, a) < 0

\* The balance the log holds for an id: what rebuild_aggregate returns, and
\* for an id on which rebuild_aggregate raises, the fold of the id's events.
LedgerBalance(evs, snaps, id) ==
  IF rebuild_aggregate(evs, snaps, id).exc = NoExc
  THEN Balance(evs, snaps, id)
  ELSE FoldAll(evs, id).balance

RECURSIVE Compensated(_, _, _)
Compensated(evs, cmds, version) ==
  IF cmds = <<>> THEN evs
  ELSE LET c == cmds[Len(cmds)]
       IN Compensated(
            Append(evs, Event(InverseType(c),
                              [id |-> c.account_id, amount |-> c.amount],
                              version + 1)),
            SubSeq(cmds, 1, Len(cmds) - 1), version + 1)

\* C4: whenever a step of start_transfer raises E, start_transfer compensates
\* every step in the completed-steps list as it is at that moment and then
\* raises E itself, not an error raised during compensation.
C4_CompensatesAllThenReraises ==
  \A f \in AccountIds, t \in AllIds, n \in Amounts :
    LET r == start_transfer(State, account, successful_commands, f, t, n)
        at == r.at_failure
    IN r.step_exc # NoExc =>
         /\ r.exc = r.step_exc
         /\ r.st.events = Compensated(at.events, at.successful_commands,
                                      Len(at.events))

\* C11: on one CommandModel used serially, every accepted execute_command and
\* every undo_command raises version_counter by exactly 1 and appends exactly
\* one event carrying the new counter value; so the versions of the log, in log
\* order and across all accounts, are 1, 2, ..., n with n = version_counter.
C11_VersionsAreOneToN ==
  /\ Len(events) = version_counter
  /\ \A i \in 1..Len(events) : events[i].version = i
  /\ \A command \in Commands :
       LET n == Len(events)
           OneMore(st) ==
             /\ st.version_counter = version_counter + 1
             /\ Len(st.events) = n + 1
             /\ SubSeq(st.events, 1, n) = events
             /\ st.events[n + 1].version = st.version_counter
           r == execute_command(State, command)
           u == undo_command(State, account, command)
       IN /\ r.exc = NoExc => OneMore(r.st)
          /\ OneMore(u.st)

\* Three calls have appended events of both accounts, one of them an undo
\* (only a compensating withdrawal takes a balance below zero).
C11_Witness ==
  /\ Len(events) = 3
  /\ version_counter = 3
  /\ \A a \in AccountIds : \E i \in 1..3 : events[i].data.id = a
  /\ \E a \in AccountIds : Balance(events, snapshots, a) < 0

\* C12: the event log is append-only: across every step (execute_command,
\* undo_command, start_transfer with its compensation, rebuild_aggregate,
\* save_snapshot) the log before the step is a prefix of the log after it, so
\* the type, account id, amount and version of every existing event stay as
\* they were.
C12_LogIsAppendOnly ==
  [][/\ Len(events') >= Len(events)
     /\ SubSeq(events', 1, Len(events)) = events]_vars

\* A log of three events after a snapshot was saved and a transfer committed.
C12_Witness ==
  /\ Len(events) = 3
  /\ snapshots # EmptyDict
  /\ Len(successful_commands) = 2

\* The state after the statements that thread has left in its call have run
\* with no other caller in between.
finish_call(st, g, thread) ==
  LET command == thread.command[1]
      st1 == IF thread.pc = "increment" THEN increment_version_counter(st) ELSE st
      st2 == IF thread.pc \in {"increment", "append"}
             THEN append_event(st1, thread.op, command) ELSE st1
  IN refresh_entity(st2, g, thread.op, command)

\* Thread t is in execute_command with a withdrawal, past the balance check
\* and before the append.
PassedCheck(t) ==
  /\ threads[t].op = "execute"
  /\ threads[t].pc \in {"increment", "append"}
  /\ threads[t].command[1].kind = "WithdrawalCommand"

\* C13: two execute_command calls with withdrawals on the same account,
\* interleaved statement by statement, can both pass the balance check before
\* either appends; both then append, and the rebuilt balance falls by both
\* amounts: below zero when together they exceed it, although the check of
\* the later caller saw its own amount covered.
C13_BothWithdrawalsAppend ==
  \A t, u \in Threads :
    (/\ t # u
     /\ PassedCheck(t)
     /\ PassedCheck(u)
     /\ threads[t].command[1].account_id = threads[u].command[1].account_id)
    => LET a == threads[t].command[1].account_id
           m == threads[t].command[1].amount + threads[u].command[1].amount
           b == Balance(events, snapshots, a)
           r1 == finish_call(State, account, threads[t])
           r2 == finish_call(r1.st, account, threads[u])
       IN /\ r1.exc = NoExc
          /\ r2.exc = NoExc
          /\ Len(r2.st.events) = Len(events) + 2
          /\ Balance(r2.st.events, r2.st.snapshots, a) = b - m
          /\ (threads[t].command[1].amount <= b
                \/ threads[u].command[1].amount <= b)

\* Both threads have appended their withdrawal: each amount was covered by
\* the balance both checks saw, and the rebuilt balance is negative.
C13_Witness ==
  /\ Len(events) >= 3
  /\ \A t \in Threads :
       /\ threads[t].op = "execute"
       /\ threads[t].pc = "refresh"
       /\ threads[t].command[1].kind = "WithdrawalCommand"
  /\ LET n == Len(events)
         a == events[n].data.id
         before == Balance(SubSeq(events, 1, n - 2), snapshots, a)
     IN /\ \A t \in Threads : threads[t].command[1].account_id = a
        /\ \A i \in {n - 1, n} :
             /\ events[i].event_type = "Withdrawal"
             /\ events[i].data.id = a
             /\ events[i].data.amount <= before
        /\ {events[n - 1].data.amount, events[n].data.amount}
             = {threads[t].command[1].amount : t \in Threads}
        /\ Balance(events, snapshots, a) < 0

\* C14: from the empty system, serially, each transfer on a new TransferSaga:
\* deposit 150 into account 1 gives balance 150; withdraw 50 gives 100;
\* withdraw 150 fails with InsufficientBalanceError and the balance stays 100;
\* transfer 50 from account 1 to the new account 2 gives 50 and 50; transfer
\* 100 from account 1 to account 2 fails with InsufficientBalanceError and
\* leaves 50 and 50.
C14_ExampleRun ==
  LET E1 == <<Event("Deposit", [id |-> 1, amount |-> 150], 1)>>
      E2 == Append(E1, Event("Withdrawal", [id |-> 1, amount |-> 50], 2))
      E4 == E2 \o <<Event("Withdrawal", [id |-> 1, amount |-> 50], 3),
                     Event("Deposit", [id |-> 2, amount |-> 50], 4)>>
      Bal(st, a) == Balance(st.events, st.snapshots, a)
  IN
  /\ events = <<>> =>
       LET r == execute_command(State, DepositCommand(1, 150))
       IN r.exc = NoExc /\ r.st.events = E1 /\ Bal(r.st, 1) = 150
  /\ events = E1 =>
       LET r == execute_command(State, WithdrawalCommand(1, 50))
       IN r.exc = NoExc /\ r.st.events = E2 /\ Bal(r.st, 1) = 100
  /\ events = E2 =>
       LET r == execute_command(State, WithdrawalCommand(1, 150))
           s == start_transfer(State, account, <<>>, 1, 2, 50)
       IN /\ r.exc = "InsufficientBalanceError"
          /\ Bal(r.st, 1) = 100
          /\ Bal(State, 2) = 0
          /\ s.exc = NoExc
          /\ s.st.events = E4
          /\ Bal(s.st, 1) = 50
          /\ Bal(s.st, 2) = 50
  /\ events = E4 =>
       LET s == start_transfer(State, account, <<>>, 1, 2, 100)
       IN /\ s.exc = "InsufficientBalanceError"
          /\ Bal(s.st, 1) = 50
          /\ Bal(s.st, 2) = 50

\* The state the first transfer of the run commits, in which the second
\* transfer is rejected.
C14_Witness ==
  /\ version_counter = 4
  /\ Balance(events, snapshots, 1) = 50
  /\ Balance(events, snapshots, 2) = 50
  /\ events[1].data.amount = 150
  /\ events[2].event_type = "Withdrawal"
  /\ successful_commands = <<WithdrawalCommand(1, 50), DepositCommand(2, 50)>>
  /\ start_transfer(State, account, <<>>, 1, 2, 100).exc
       = "InsufficientBalanceError"

\* C15: compensate_transfer with the completed-steps list c1, ..., cn (n >= 1)
\* appends exactly n compensating events, the inverse of cn first and the
\* inverse of c1 last, with consecutive versions, and leaves the list empty.
C15_CompensatesInReverse ==
  successful_commands # <<>> =>
    LET r == compensate_transfer(State, account, successful_commands)
    IN /\ r.st.events
            = Compensated(events, successful_commands, version_counter)
       /\ r.successful_commands = <<>>

\* C16: on a newly constructed TransferSaga, a start_transfer whose amount
\* exceeds the from-account's balance is rejected at the withdrawal step:
\* compensation is a no-op, so no event is appended, version_counter, the
\* snapshots and the entity store are unchanged, the deposit step is never
\* attempted, the completed-steps list stays empty and the withdrawal's
\* InsufficientBalanceError is raised.
C16_RejectedTransferIsNoOp ==
  \A f \in AccountIds, t \in AllIds, n \in Amounts :
    n > Balance(events, snapshots, f) =>
      LET r == start_transfer(State, account, <<>>, f, t, n)
      IN /\ r.exc = "InsufficientBalanceError"
         /\ r.step_exc = "InsufficientBalanceError"
         /\ r.failed_step = "withdrawal"
         /\ r.at_failure.events = events
         /\ r.st = State
         /\ r.successful_commands = <<>>

\* A new saga, and a funded from-account with a snapshot and an entity, on
\* which a larger transfer is rejected.
C16_Witness ==
  /\ successful_commands = <<>>
  /\ \E f \in AccountIds, t \in AccountIds, n \in Amounts :
       /\ f # t
       /\ f \in DOMAIN snapshots
       /\ f \in DOMAIN accounts
       /\ Balance(events, snapshots, f) > 0
       /\ n > Balance(events, snapshots, f)
       /\ start_transfer(State, account, <<>>, f, t, n).failed_step
            = "withdrawal"

\* C17: in every reachable state rebuild_aggregate(a) returns, without error,
\* the version of the last event of a it applied; the snapshot's version when
\* no event of a is newer than the snapshot; and version 0 with balance 0
\* when a has neither events nor a snapshot.
C17_RebuiltVersion ==
  \A a \in AccountIds :
    LET r == rebuild_aggregate(events, snapshots, a)
        snapshot == get_snapshot(snapshots, a)
        after == IF snapshot # <<>> THEN snapshot[1].version ELSE 0
        applied == get_events(events, a, after)
    IN /\ r.exc = NoExc
       /\ applied # <<>> =>
            r.value.version = applied[Len(applied)].version
       /\ (applied = <<>> /\ snapshot # <<>>) =>
            r.value.version = snapshot[1].version
       /\ (get_events(events, a, 0) = <<>> /\ snapshot = <<>>) =>
            r.value.version = 0 /\ r.value.balance = 0

\* One account has a snapshot and no newer event, the other one a snapshot
\* and a newer event.
C17_Witness ==
  \E a \in DOMAIN snapshots, b \in DOMAIN snapshots :
    /\ a # b
    /\ snapshots[a].version > 0
    /\ get_events(events, a, snapshots[a].version) = <<>>
    /\ snapshots[b].version > 0
    /\ get_events(events, b, snapshots[b].version) # <<>>

\* C18: in every state reachable by serial execute_command, undo_command (of
\* commands execute_command accepted before) and start_transfer calls, the
\* rebuilt balance of every account is >= 0.
C18_BalancesNeverNegative ==
  \A a \in AccountIds : Balance(events, snapshots, a) >= 0

\* C18, amended: in those states execute_command, start_transfer on a new
\* saga and undo_command of an accepted withdrawal never take a balance below
\* zero (nor lower one that is below zero); undo_command of an accepted
\* deposit lowers the balance by the deposit's amount without a check.
C18_OnlyUndoneDepositsOverdraw ==
  LET Bal(st, a) == Balance(st.events, st.snapshots, a)
      Floor(b) == IF b < 0 THEN b ELSE 0
      Kept(st) == \A a \in AccountIds : Bal(st, a) >= Floor(Bal(State, a))
  IN
  /\ \A command \in Commands : Kept(execute_command(State, command).st)
  /\ \A f \in AccountIds, t \in AllIds, n \in Amounts :
       Kept(start_transfer(State, account, <<>>, f, t, n).st)
  /\ \A command \in executed :
       LET u == undo_command(State, account, command)
       IN IF command.kind = "WithdrawalCommand"
          THEN \A a \in AccountIds : Bal(u.st, a) >= Bal(State, a)
          ELSE Bal(u.st, command.account_id)
                 = Bal(State, command.account_id) - command.amount

\* An accepted deposit was undone after part of it had been withdrawn: the
\* balance is negative.
C18_Witness ==
  /\ Len(events) = 3
  /\ events[1].event_type = "Deposit"
  /\ events[2].event_type = "Withdrawal"
  /\ events[3].event_type = "Withdrawal"
  /\ events[3].data = events[1].data
  /\ events[2].data.id = events[1].data.id
  /\ events[2].data.amount < events[1].data.amount
  /\ WithdrawalCommand(events[2].data.id, events[2].data.amount) \in executed
  /\ DepositCommand(events[1].data.id, events[1].data.amount) \notin executed
  /\ Balance(events, snapshots, events[1].data.id) < 0

\* C19: whenever start_transfer returns, normally or by raising, the saga's
\* successful_commands list is empty (so that a later failing start_transfer
\* of the same saga compensates no step of an earlier committed transfer);
\* stated for transfers between two existing account ids.
C19_ListEmptyAfterTransfer ==
  \A f \in AccountIds, t \in AccountIds, n \in Amounts :
    start_transfer(State, account, successful_commands, f, t, n)
        .successful_commands = <<>>

\* C19, amended: when start_transfer returns normally, the list is what it
\* was before the call followed by the transfer's withdrawal and deposit
\* commands; when it raises, the list is empty if compensation completed and
\* is left as it was at the failed step if undo_command raised (NameError)
\* during compensation.  So on a reused saga a failing start_transfer
\* compensates the steps of the earlier committed transfers: the first event
\* it appends is the inverse of the last command the list held.
C19_ListKeptOnCommit ==
  \A f \in AccountIds, t \in AllIds, n \in Amounts :
    LET cmds == successful_commands
        r == start_transfer(State, account, cmds, f, t, n)
        at == r.at_failure
        k == Len(at.events)
        last == at.successful_commands[Len(at.successful_commands)]
    IN /\ r.exc = NoExc =>
            r.successful_commands
              = cmds \o <<WithdrawalCommand(f, n), DepositCommand(t, n)>>
       /\ r.exc = "NameError" =>
            /\ r.successful_commands = at.successful_commands
            /\ r.successful_commands # <<>>
       /\ r.exc \notin {NoExc, "NameError"} => r.successful_commands = <<>>
       /\ (r.step_exc # NoExc /\ cmds # <<>>) =>
            /\ Len(r.st.events) > k
            /\ r.st.events[k + 1]
                 = Event(InverseType(last),
                         [id |-> last.account_id, amount |-> last.amount],
                         k + 1)

\* A saga that committed a transfer was reused for a transfer that failed:
\* the log ends with the committed deposit and the withdrawal compensating
\* it, and the list still holds the committed steps.
C19_Witness ==
  /\ Len(events) = 4
  /\ Len(successful_commands) = 2
  /\ successful_commands[2].kind = "DepositCommand"
  /\ events[2].event_type = "Withdrawal"
  /\ events[3].event_type = "Deposit"
  /\ events[3].data.id # events[2].data.id
  /\ events[3].data.amount = events[2].data.amount
  /\ events[4].event_type = "Withdrawal"
  /\ events[4].data = events[3].data
  /\ events[3].data = [id |-> successful_commands[2].account_id,
                        amount |-> successful_commands[2].amount]

\* C20: when two execute_command or undo_command calls on one CommandModel
\* are interleaved between the counter increment and the read of
\* version_counter passed to command.execute or command.undo, every event of
\* the log still has a distinct version and the versions are strictly
\* increasing in log order.
C20_VersionsStayDistinct ==
  \A i, j \in 1..Len(events) :
    i < j => events[i].version < events[j].version

\* C20, amended: under that interleaving the versions never decrease in log
\* order, and each is at least the event's position in the log and at most
\* version_counter, but two events can carry the same version; of two events
\* of one account with the same version, rebuild_aggregate skips the later
\* one when it starts from a snapshot saved between the two appends.
C20_VersionsNeverDecrease ==
  /\ \A i, j \in 1..Len(events) :
       i < j => events[i].version <= events[j].version
  /\ \A i \in 1..Len(events) :
       i <= events[i].version /\ events[i].version <= version_counter
  /\ \A i, j \in 1..Len(events) :
       (/\ i < j
        /\ events[i].version = events[j].version
        /\ events[i].data.id = events[j].data.id)
       => LET a == events[i].data.id
              between == SubSeq(events, 1, i)
              snaps == save_snapshot(snapshots,
                         rebuild_aggregate(between, snapshots, a).value)
          IN /\ get_events(events, a, snaps[a].version)
                  = get_events(SubSeq(events, j + 1, Len(events)), a, 0)
             /\ Balance(events, snaps, a) # FoldAll(events, a).balance

\* An execute_command and an undo_command on one account have both
\* incremented the counter before either appended: both events carry
\* version 2.
C20_Witness ==
  /\ Len(events) = 2
  /\ events[1].version = 2
  /\ events[2].version = 2
  /\ events[1].data.id = events[2].data.id
  /\ version_counter = 2
  /\ {threads[t].op : t \in Threads} = {"execute", "undo"}
  /\ \A t \in Threads : threads[t].pc = "refresh"

====
